---------------------------- MODULE Spec2Model ----------------------------
(***************************************************************************)
(* A model of the barcode sheet generator (src/App.tsx and the lookup      *)
(* function api/get-barcode-url.ts).                                       *)
(*                                                                         *)
(* Strings are sequences of one-character strings, so that startsWith,     *)
(* endsWith, toLowerCase, trim and substring are computed as the code      *)
(* computes them.  Lengths on the page are exact rationals kept as         *)
(* integers in units of 1/48 px (the font height is 200/3 px, the vector   *)
(* scale factor is 25/8); IEEE rounding of the doubles is not modelled.    *)
(* marginTop is kept in hundredths of an inch (the input's step).          *)
(***************************************************************************)
EXTENDS Integers, Sequences, FiniteSets, Bags, TLC

VARIABLES
    now,             \* Date.now(), in ms
    barcodeGroups,   \* useState<BarcodeGroup[]>
    isLoading,       \* useState<boolean>
    error,           \* useState<string | null>
    valTimers,       \* pending setTimeout(..., 500) handlers, oldest first,
                     \*   each with the barcodeGroups its closure captured
    drawTimers,      \* pending setTimeout(..., 300) handlers, likewise
    validations,     \* bag of validateBarcodeUrl calls suspended at an await
    validatedFor,    \* history: id -> the value argument of the call that
                     \*   last wrote a completion for that id
    passes,          \* drawOnCanvas calls suspended at the image await
    previewCanvas,   \* the canvas behind previewCanvasRef
    exportCanvas,    \* the offscreen canvas of the export in flight
    exportPc,        \* position of handleGenerateAndDownload
    exportOutcome,   \* history: how the layout pass of the latest export ended
    download,        \* link.download of the latest export, if it clicked one
    lastPass         \* history: the render pass that completed most recently

vars == <<now, barcodeGroups, isLoading, error, valTimers, drawTimers,
          validations, validatedFor, passes, previewCanvas, exportCanvas,
          exportPc, exportOutcome, download, lastPass>>

groupVars == <<barcodeGroups, valTimers, drawTimers>>
renderVars == <<passes, previewCanvas, exportCanvas, exportPc, exportOutcome,
                download, lastPass, isLoading, error>>

(***************************************************************************)
(* Bounds of the model.                                                    *)
(***************************************************************************)
MaxGroups == 2
MaxClock == 1
MaxInflight == 2
MaxPasses == 2

(***************************************************************************)
(* Strings.                                                                *)
(***************************************************************************)
EmptyStr == <<>>
HttpPrefix == <<"h", "t", "t", "p", ":", "/", "/">>
HttpsPrefix == <<"h", "t", "t", "p", "s", ":", "/", "/">>
Key1 == <<"1">>
Key2 == <<"2">>
Key3 == <<"3">>
UrlPng == HttpsPrefix \o <<"h", "/", "a", ".", "p", "n", "g">>
UrlSvg == HttpPrefix \o <<"h", "/", "b", ".", "S", "V", "G">>
UrlSvgQuery == HttpsPrefix \o <<"h", "/", "c", ".", "s", "v", "g", "?", "v">>

StartsWith(s, p) == Len(s) >= Len(p) /\ SubSeq(s, 1, Len(p)) = p
EndsWith(s, p) == Len(s) >= Len(p) /\ SubSeq(s, Len(s) - Len(p) + 1, Len(s)) = p

LowerChar(c) ==
    CASE c = "S" -> "s" [] c = "V" -> "v" [] c = "G" -> "g"
      [] c = "P" -> "p" [] c = "N" -> "n" [] c = "T" -> "t"
      [] OTHER -> c
ToLowerCase(s) == [i \in 1..Len(s) |-> LowerChar(s[i])]

\* s.substring(0, n)
Substring0(s, n) == SubSeq(s, 1, IF Len(s) < n THEN Len(s) ELSE n)

IsSpace(c) == c \in {" ", "\t", "\n"}
\* s.trim() !== ''
TrimNonEmpty(s) == \E i \in 1..Len(s) : ~IsSpace(s[i])

(***************************************************************************)
(* Page constants (src/App.tsx:5-9), in 1/48 px.                           *)
(***************************************************************************)
\* One pixel, in the model's length unit: a multiple of 3 (font height) and
\* of 16 (vector scale factor, halved when a grid is centred).
PX == 3 * 16
DPI == 300
A4_WIDTH_PX == 2481 * PX
A4_HEIGHT_PX == 3507 * PX

(***************************************************************************)
(* Groups.                                                                 *)
(***************************************************************************)
NewGroup(id, inputValue, marginTop) ==
    [id |-> id, inputValue |-> inputValue, resolvedUrl |-> EmptyStr,
     validationStatus |-> "idle", title |-> EmptyStr,
     horizontalCount |-> 5, verticalCount |-> 10, marginTop |-> marginTop]

InitialGroups(t) == <<NewGroup(t, Key1, 0)>>

GroupIds(groups) == {groups[i].id : i \in 1..Len(groups)}

\* JSON.stringify(barcodeGroups): every field of every group is serialised,
\* in order, so two sequences give the same text exactly when they are equal.
JSONStringify(groups) == groups

(***************************************************************************)
(* Timers.  All handlers of one effect have the same delay, so they fire   *)
(* oldest first, and the handler the effect's cleanup holds is the newest  *)
(* one armed: if any is pending, it is the last.                           *)
(***************************************************************************)
ClearTimeoutDropped(timers) == timers

ClearTimeout(timers) ==
    IF timers = <<>> THEN <<>> ELSE SubSeq(timers, 1, Len(timers) - 1)

\* The effects that run after setBarcodeGroups(new): the validation effect
\* depends on the array's identity (always new), the preview effect on its
\* JSON text.
ValEffect(timers, new) == Append(ClearTimeout(timers), new)

DrawEffect(timers, old, new) ==
    IF JSONStringify(new) # JSONStringify(old)
    THEN Append(ClearTimeout(timers), new)
    ELSE timers

SetBarcodeGroups(new) ==
    /\ barcodeGroups' = new
    /\ valTimers' = ValEffect(valTimers, new)
    /\ drawTimers' = DrawEffect(drawTimers, barcodeGroups, new)


(***************************************************************************)
(* The lookup function (api/get-barcode-url.ts).  The table is the         *)
(* 'barcodes' table of the backing store; dbOk is false when the           *)
(* environment variables are unset or the query reports an error.          *)
(***************************************************************************)
BarcodesTable == (Key1 :> UrlPng) @@ (Key2 :> UrlSvg)

\* The barcode numbers whose row holds no image_url (null).
NullRows == {Key3}

Handler(number, dbOk) ==
    IF number = EmptyStr
    THEN [status |-> 400, hasImageUrl |-> FALSE, imageUrl |-> EmptyStr]
    ELSE IF ~dbOk \/ number \notin (DOMAIN BarcodesTable \cup NullRows)
    THEN [status |-> 404, hasImageUrl |-> FALSE, imageUrl |-> EmptyStr]
    ELSE IF number \in NullRows
    THEN [status |-> 200, hasImageUrl |-> FALSE, imageUrl |-> EmptyStr]
    ELSE [status |-> 200, hasImageUrl |-> TRUE, imageUrl |-> BarcodesTable[number]]

\* response.ok
ResponseOk(r) == r.status >= 200 /\ r.status <= 299

(***************************************************************************)
(* validateBarcodeUrl (src/App.tsx:42-83).  A call in flight is            *)
(* [id, value, pc, urlToCheck], pc the await it is suspended at.           *)
(***************************************************************************)
IsFullUrlHttpsOnly(value) == StartsWith(value, HttpsPrefix)

IsFullUrl(value) == StartsWith(value, HttpPrefix) \/ StartsWith(value, HttpsPrefix)

\* setBarcodeGroups(prev => prev.map(g => g.id === id ? {...g, ...} : g))
WriteStatus(groups, id, status, url) ==
    [i \in 1..Len(groups) |->
        IF groups[i].id = id
        THEN [groups[i] EXCEPT !.validationStatus = status, !.resolvedUrl = url]
        ELSE groups[i]]

WriteChecking(groups, id) ==
    [i \in 1..Len(groups) |->
        IF groups[i].id = id
        THEN [groups[i] EXCEPT !.validationStatus = "checking"]
        ELSE groups[i]]

\* The synchronous part of validateBarcodeUrl(id, value): the groups it
\* leaves, and the calls (none or one) it leaves suspended.
ValidateGroups(groups, id, value) ==
    IF value = EmptyStr
    THEN WriteStatus(groups, id, "idle", EmptyStr)
    ELSE WriteChecking(groups, id)

ValidateCalls(id, value) ==
    IF value = EmptyStr THEN <<>>
    ELSE IF IsFullUrl(value)
    THEN <<[id |-> id, value |-> value, pc |-> "head", urlToCheck |-> value]>>
    ELSE <<[id |-> id, value |-> value, pc |-> "lookup", urlToCheck |-> EmptyStr]>>

\* barcodeGroups.forEach(group => { if (...) validateBarcodeUrl(...) })
\* over the groups the timer's closure captured.
RECURSIVE TimerGroups(_, _)
TimerGroups(snap, groups) ==
    IF snap = <<>> THEN groups
    ELSE LET g == Head(snap) IN
         IF g.inputValue # EmptyStr /\ g.validationStatus = "idle"
         THEN TimerGroups(Tail(snap), ValidateGroups(groups, g.id, g.inputValue))
         ELSE TimerGroups(Tail(snap), groups)

RECURSIVE TimerCalls(_)
TimerCalls(snap) ==
    IF snap = <<>> THEN <<>>
    ELSE LET g == Head(snap) IN
         IF g.inputValue # EmptyStr /\ g.validationStatus = "idle"
         THEN ValidateCalls(g.id, g.inputValue) \o TimerCalls(Tail(snap))
         ELSE TimerCalls(Tail(snap))

RECURSIVE SeqToBag(_)
SeqToBag(s) ==
    IF s = <<>> THEN EmptyBag ELSE SetToBag({Head(s)}) (+) SeqToBag(Tail(s))

\* The 500 ms handler fires (src/App.tsx:87-93).
ValTimerFire ==
    /\ valTimers # <<>>
    /\ LET snap == Head(valTimers)
           calls == TimerCalls(snap)
           new == TimerGroups(snap, barcodeGroups)
       IN /\ BagCardinality(validations) + Len(calls) <= MaxInflight
          /\ validations' = validations (+) SeqToBag(calls)
          /\ IF calls = <<>>
             THEN /\ valTimers' = Tail(valTimers)
                  /\ UNCHANGED <<barcodeGroups, drawTimers>>
             ELSE /\ barcodeGroups' = new
                  /\ valTimers' = ValEffect(Tail(valTimers), new)
                  /\ drawTimers' = DrawEffect(drawTimers, barcodeGroups, new)
    /\ UNCHANGED <<now, validatedFor>>
    /\ UNCHANGED renderVars

\* A suspended call ends: the write of line 74 (status "valid") or of
\* line 81 (status "invalid").
Complete(c, status, url) ==
    /\ validations' = validations (-) SetToBag({c})
    /\ SetBarcodeGroups(WriteStatus(barcodeGroups, c.id, status, url))
    /\ validatedFor' = [validatedFor EXCEPT ![c.id] = c.value]
    /\ UNCHANGED now
    /\ UNCHANGED renderVars

\* The lookup fetch of line 58 settles: it throws (netOk false) or answers
\* with what the lookup function returns.
LookupSettles(c, netOk, dbOk) ==
    LET r == Handler(c.value, dbOk) IN
    IF ~netOk \/ ~ResponseOk(r) \/ ~r.hasImageUrl \/ r.imageUrl = EmptyStr
    THEN Complete(c, "invalid", EmptyStr)
    ELSE /\ validations' = (validations (-) SetToBag({c}))
                (+) SetToBag({[c EXCEPT !.pc = "head", !.urlToCheck = r.imageUrl]})
         /\ UNCHANGED <<now, validatedFor>>
         /\ UNCHANGED groupVars
         /\ UNCHANGED renderVars

LookupRespond(c) ==
    /\ c \in BagToSet(validations)
    /\ c.pc = "lookup"
    /\ \E netOk \in BOOLEAN, dbOk \in BOOLEAN : LookupSettles(c, netOk, dbOk)

\* The HEAD fetch of line 72 settles: ok, not ok, or thrown.
HeadSettles(c, outcome) ==
    IF outcome = "ok"
    THEN Complete(c, "valid", c.urlToCheck)
    ELSE Complete(c, "invalid", EmptyStr)

HeadRespond(c) ==
    /\ c \in BagToSet(validations)
    /\ c.pc = "head"
    /\ \E outcome \in {"ok", "notok", "throw"} : HeadSettles(c, outcome)

(***************************************************************************)
(* The user's handlers (src/App.tsx:215-243).  A value is tagged with its  *)
(* JavaScript type.                                                        *)
(***************************************************************************)
Str(s) == [type |-> "string", val |-> s]
Num(n) == [type |-> "number", val |-> n]

Tick ==
    /\ now < MaxClock
    /\ now' = now + 1
    /\ UNCHANGED <<validations, validatedFor>>
    /\ UNCHANGED groupVars
    /\ UNCHANGED renderVars

HandleAddGroup ==
    /\ Len(barcodeGroups) < MaxGroups
    /\ SetBarcodeGroups(Append(barcodeGroups, NewGroup(now, EmptyStr, 10)))
    /\ UNCHANGED <<now, validations, validatedFor>>
    /\ UNCHANGED renderVars

\* The remove button is rendered only while there is more than one group.
HandleRemoveGroup(idToRemove) ==
    /\ Len(barcodeGroups) > 1
    /\ idToRemove \in GroupIds(barcodeGroups)
    /\ SetBarcodeGroups(SelectSeq(barcodeGroups, LAMBDA b : b.id # idToRemove))
    /\ UNCHANGED <<now, validations, validatedFor>>
    /\ UNCHANGED renderVars

ChangeGroupKeepUrl(group, field, value) ==
    IF field = "inputValue"
    THEN [group EXCEPT !.inputValue = value.val, !.validationStatus = "idle"]
    ELSE group

\* value as string (line 229): the cast checks nothing.  A number that lands
\* in a string-typed field is kept apart from every string.
AsString(value) ==
    IF value.type = "string" THEN value.val ELSE <<"number", ToString(value.val)>>

ChangeGroup(group, field, value) ==
    IF field = "inputValue"
    THEN [group EXCEPT !.inputValue = AsString(value), !.resolvedUrl = EmptyStr,
                       !.validationStatus = "idle"]
    ELSE IF value.type = "string" /\ field = "title"
    THEN [group EXCEPT !.title = value.val]
    ELSE IF value.type = "number" /\ field = "horizontalCount"
    THEN [group EXCEPT !.horizontalCount = value.val]
    ELSE IF value.type = "number" /\ field = "verticalCount"
    THEN [group EXCEPT !.verticalCount = value.val]
    ELSE IF value.type = "number" /\ field = "marginTop"
    THEN [group EXCEPT !.marginTop = value.val]
    ELSE group

HandleGroupChange(idToUpdate, field, value) ==
    /\ SetBarcodeGroups([i \in 1..Len(barcodeGroups) |->
            IF barcodeGroups[i].id = idToUpdate
            THEN ChangeGroup(barcodeGroups[i], field, value)
            ELSE barcodeGroups[i]])
    /\ UNCHANGED <<now, validations, validatedFor>>
    /\ UNCHANGED renderVars


(***************************************************************************)
(* Rationals <<n, d>> in lowest terms, for the canvas transform (a uniform *)
(* scale).                                                                 *)
(***************************************************************************)
RECURSIVE GCD(_, _)
GCD(a, b) == IF b = 0 THEN a ELSE GCD(b, a % b)

Rat(n, d) == LET g == GCD(n, d) IN <<n \div g, d \div g>>
RatMul(r, q) == Rat(r[1] * q[1], r[2] * q[2])
RatLeq(r, q) == r[1] * q[2] <= q[1] * r[2]
RatMin(r, q) == IF RatLeq(r, q) THEN r ELSE q
RatOne == <<1, 1>>

(***************************************************************************)
(* The canvas and its 2d context: the backing store's size in px, the      *)
(* current transform and the stack of ctx.save().  What was drawn is kept  *)
(* with the pass that drew it.                                             *)
(***************************************************************************)
\* canvas.offsetWidth, canvas.offsetHeight (CSS px) and devicePixelRatio of
\* the preview element.
OffsetWidth == 827
OffsetHeight == 1169
DevicePixelRatio == 2

\* A canvas as document.createElement('canvas') leaves it.
NewCanvas == [width |-> 300, height |-> 150, ctm |-> RatOne, saved |-> <<>>]

\* ctx.scale(f, f), ctx.save(), ctx.restore()
CtxScale(canvas, f) == [canvas EXCEPT !.ctm = RatMul(canvas.ctm, f)]
CtxSave(canvas) == [canvas EXCEPT !.saved = Append(canvas.saved, canvas.ctm)]
CtxRestore(canvas) ==
    IF canvas.saved = <<>> THEN canvas
    ELSE [canvas EXCEPT !.ctm = canvas.saved[Len(canvas.saved)],
                        !.saved = SubSeq(canvas.saved, 1, Len(canvas.saved) - 1)]

\* Assigning canvas.width or canvas.height clears the canvas and resets the
\* context to its default state.
CanvasResize(w, h) == [width |-> w, height |-> h, ctm |-> RatOne, saved |-> <<>>]

\* A drawing call: its arguments in user space and the transform in force.
Op(kind, x, y, w, h, ctm) ==
    [kind |-> kind, x |-> x, y |-> y, w |-> w, h |-> h, ctm |-> ctm]

(***************************************************************************)
(* Error messages: the text and the URL prefix it quotes.                  *)
(***************************************************************************)
NoError == [msg |-> "", url |-> EmptyStr]
OverflowMsg ==
    [msg |-> "Content overflows A4 page. Reduce counts or adjust margins.",
     url |-> EmptyStr]
LoadMsg(url) == [msg |-> "Failed to load: ...", url |-> Substring0(url, 50)]
ZeroMsg(url) ==
    [msg |-> "Image from ... has zero dimensions.", url |-> Substring0(url, 50)]
BlobMsg ==
    [msg |-> "Failed to create image blob. The canvas may be empty or too large.",
     url |-> EmptyStr]

FileName == "barcode-sheet-A4-300dpi.png"

(***************************************************************************)
(* drawOnCanvas (src/App.tsx:101-203).                                     *)
(***************************************************************************)
LogicalCanvasWidth(isPreview) == IF isPreview THEN OffsetWidth * PX ELSE A4_WIDTH_PX
LogicalCanvasHeight(isPreview) == IF isPreview THEN OffsetHeight * PX ELSE A4_HEIGHT_PX

\* groups.filter(...) of line 121
ContributesAnyCount(g) ==
    /\ g.resolvedUrl # EmptyStr
    /\ g.validationStatus = "valid"

Contributes(g) ==
    /\ g.resolvedUrl # EmptyStr
    /\ g.validationStatus = "valid"
    /\ g.horizontalCount > 0
    /\ g.verticalCount > 0

ValidGroups(groups) == SelectSeq(groups, Contributes)

\* (fontSizePt / 72) * DPI, fontSizePt = 16
FontSizePx == (16 * DPI * PX) \div 72

\* group.marginTop * DPI, marginTop in hundredths of an inch
MarginPx(marginTop) == (marginTop * DPI * PX) \div 100

HasTitle(g) == g.title # EmptyStr /\ TrimNonEmpty(g.title)

\* Lines 105-119: size the canvas, scale by the pixel ratio, fill white.
CanvasPrepared(isPreview) ==
    IF isPreview
    THEN CtxScale(CanvasResize(OffsetWidth * DevicePixelRatio,
                               OffsetHeight * DevicePixelRatio),
                  <<DevicePixelRatio, 1>>)
    ELSE CanvasResize(A4_WIDTH_PX \div PX, A4_HEIGHT_PX \div PX)

ScaleToFit ==
    RatMin(Rat(OffsetWidth * PX, A4_WIDTH_PX), Rat(OffsetHeight * PX, A4_HEIGHT_PX))

\* Lines 186-189: in preview mode, ctx.save() and ctx.scale(scaleToFit).
CanvasForContentNoFit(canvas, isPreview) ==
    IF isPreview THEN CtxSave(canvas) ELSE canvas

CanvasForContent(canvas, isPreview) ==
    IF isPreview THEN CtxScale(CtxSave(canvas), ScaleToFit) ELSE canvas

\* Lines 128-140 for one group: the offset after its margin and title band,
\* and the title's fillText, if any.
OffsetAfterTitleFromTop(y, g) ==
    LET m == MarginPx(g.marginTop) IN
    IF HasTitle(g) THEN m + FontSizePx + (FontSizePx \div 2) ELSE m

OffsetAfterTitle(y, g) ==
    LET m == y + MarginPx(g.marginTop) IN
    IF HasTitle(g) THEN m + FontSizePx + (FontSizePx \div 2) ELSE m

TitleOps(y, g, ctm) ==
    IF HasTitle(g)
    THEN <<Op("title", A4_WIDTH_PX \div 2, y + MarginPx(g.marginTop) + FontSizePx,
              0, 0, ctm)>>
    ELSE <<>>

\* Lines 150-157: the cell size from the image's natural size.
IsSvg(url) == EndsWith(ToLowerCase(url), <<".", "s", "v", "g">>)
CellSize(url, natural) ==
    IF IsSvg(url) THEN (natural * DPI * PX) \div 96 ELSE natural * PX

\* Lines 170-179: the drawImage calls of one group, row by row.
CellOpsColumnMajor(g, y, bw, bh, ctm) ==
    LET startX == (A4_WIDTH_PX - g.horizontalCount * bw) \div 2
        n == g.horizontalCount * g.verticalCount
    IN [k \in 1..n |->
          Op("cell", startX + ((k - 1) \div g.verticalCount) * bw,
             y + ((k - 1) % g.verticalCount) * bh, bw, bh, ctm)]

CellOps(g, y, bw, bh, ctm) ==
    LET startX == (A4_WIDTH_PX - g.horizontalCount * bw) \div 2
        n == g.horizontalCount * g.verticalCount
    IN [k \in 1..n |->
          Op("cell", startX + ((k - 1) % g.horizontalCount) * bw,
             y + ((k - 1) \div g.horizontalCount) * bh, bw, bh, ctm)]

\* The call as it suspends at the first image (line 142).
NewPass(canvas, valid, isPreview) ==
    [isPreview |-> isPreview, groups |-> valid, i |-> 1,
     y |-> OffsetAfterTitle(0, valid[1]),
     dims |-> <<>>,
     logicalWidth |-> LogicalCanvasWidth(isPreview),
     logicalHeight |-> LogicalCanvasHeight(isPreview),
     drawn |-> <<Op("white", 0, 0, LogicalCanvasWidth(isPreview),
                    LogicalCanvasHeight(isPreview), CanvasPrepared(isPreview).ctm)>>
               \o TitleOps(0, valid[1], canvas.ctm)]

\* The call that returns at line 122: nothing to draw.
BlankPass(isPreview) ==
    [isPreview |-> isPreview, groups |-> <<>>, i |-> 0, y |-> 0, dims |-> <<>>,
     logicalWidth |-> LogicalCanvasWidth(isPreview),
     logicalHeight |-> LogicalCanvasHeight(isPreview),
     drawn |-> <<Op("white", 0, 0, LogicalCanvasWidth(isPreview),
                    LogicalCanvasHeight(isPreview), CanvasPrepared(isPreview).ctm)>>]

Finished(pass, outcome, err, canvas) ==
    [pass |-> pass, outcome |-> outcome, err |-> err,
     canvasWidth |-> canvas.width, canvasHeight |-> canvas.height]

NoPass == Finished(BlankPass(TRUE), "none", NoError, NewCanvas)

PreviewCount == Len(SelectSeq(passes, LAMBDA p : p.isPreview))

RemoveAt(s, k) == SubSeq(s, 1, k - 1) \o SubSeq(s, k + 1, Len(s))


CanvasOf(pass) == IF pass.isPreview THEN previewCanvas ELSE exportCanvas

\* What handleGenerateAndDownload does when its await of drawOnCanvas
\* returns (line 251): it calls toBlob and waits for the callback.
AfterPass(pass, outcome) ==
    IF pass.isPreview
    THEN UNCHANGED <<exportPc, exportOutcome>>
    ELSE exportPc' = "toBlob" /\ exportOutcome' = outcome

\* The catch block of lines 196-202.
PassFails(k, pass, msg) ==
    LET canvas == CanvasOf(pass)
        tint == Op("tint", 0, 0, pass.logicalWidth, pass.logicalHeight, canvas.ctm)
    IN /\ error' = msg
       /\ passes' = RemoveAt(passes, k)
       /\ lastPass' = Finished([pass EXCEPT !.drawn = Append(@, tint)],
                               "error", msg, canvas)
       /\ AfterPass(pass, "error")
       /\ UNCHANGED <<previewCanvas, exportCanvas>>

\* drawContent returned: ctx.restore() in preview mode, setError(null).
PassSucceeds(k, pass) ==
    /\ error' = NoError
    /\ passes' = RemoveAt(passes, k)
    /\ lastPass' = Finished(pass, "success", NoError, CanvasOf(pass))
    /\ AfterPass(pass, "success")
    /\ IF pass.isPreview
       THEN previewCanvas' = CtxRestore(previewCanvas) /\ UNCHANGED exportCanvas
       ELSE UNCHANGED <<previewCanvas, exportCanvas>>

\* The test of line 166.
OverflowsPageGridOnly(currentYOffset, groupGridHeight) ==
    groupGridHeight > A4_HEIGHT_PX

OverflowsPage(currentYOffset, groupGridHeight) ==
    currentYOffset + groupGridHeight > A4_HEIGHT_PX

\* The image of the group the pass waits for loads with the natural size
\* <<width, height>> (image.onload): lines 150-181, then the next group's
\* lines 128-148, or the end of drawContent.
ImageLoaded(k, natural) ==
    /\ k \in 1..Len(passes)
    /\ LET pass == passes[k]
           g == pass.groups[pass.i]
           barcodeWidth == CellSize(g.resolvedUrl, natural[1])
           barcodeHeight == CellSize(g.resolvedUrl, natural[2])
           groupGridHeight == g.verticalCount * barcodeHeight
           loaded == [pass EXCEPT !.dims = Append(@, natural)]
           ctm == CanvasOf(pass).ctm
       IN IF barcodeWidth = 0 \/ barcodeHeight = 0
          THEN PassFails(k, loaded, ZeroMsg(g.resolvedUrl))
          ELSE IF OverflowsPage(pass.y, groupGridHeight)
          THEN PassFails(k, loaded, OverflowMsg)
          ELSE LET y == pass.y + groupGridHeight
                   cells == CellOps(g, pass.y, barcodeWidth, barcodeHeight, ctm)
                   drawn == [loaded EXCEPT !.drawn = @ \o cells, !.y = y]
               IN IF pass.i < Len(pass.groups)
                  THEN LET next == pass.groups[pass.i + 1] IN
                       /\ passes' = [passes EXCEPT ![k] =
                              [drawn EXCEPT !.i = pass.i + 1,
                                            !.y = OffsetAfterTitle(y, next),
                                            !.drawn = @ \o TitleOps(y, next, ctm)]]
                       /\ UNCHANGED <<error, lastPass, previewCanvas, exportCanvas,
                                      exportPc, exportOutcome>>
                  ELSE PassSucceeds(k, drawn)
    /\ UNCHANGED <<now, isLoading, download, validations, validatedFor>>
    /\ UNCHANGED groupVars

\* image.onerror
ImageFailed(k) ==
    /\ k \in 1..Len(passes)
    /\ PassFails(k, passes[k], LoadMsg(passes[k].groups[passes[k].i].resolvedUrl))
    /\ UNCHANGED <<now, isLoading, download, validations, validatedFor>>
    /\ UNCHANGED groupVars

\* The 300 ms handler fires (src/App.tsx:208-210):
\* drawOnCanvas(canvas, barcodeGroups, true) up to its first await.
DrawTimerFire ==
    /\ drawTimers # <<>>
    /\ drawTimers' = Tail(drawTimers)
    /\ LET valid == ValidGroups(Head(drawTimers))
           prepared == CanvasPrepared(TRUE)
       IN IF valid = <<>>
          THEN /\ previewCanvas' = prepared
               /\ lastPass' = Finished(BlankPass(TRUE), "success", NoError, prepared)
               /\ UNCHANGED passes
          ELSE /\ PreviewCount < MaxPasses
               /\ previewCanvas' = CanvasForContent(prepared, TRUE)
               /\ passes' = Append(passes,
                      NewPass(CanvasForContent(prepared, TRUE), valid, TRUE))
               /\ UNCHANGED lastPass
    /\ UNCHANGED <<now, barcodeGroups, valTimers, isLoading, error, validations,
                   validatedFor, exportCanvas, exportPc, exportOutcome, download>>

(***************************************************************************)
(* Export (src/App.tsx:245-267).                                           *)
(***************************************************************************)
GroupBlocksExport(g) ==
    \/ g.validationStatus # "valid"
    \/ g.resolvedUrl = EmptyStr
    \/ g.horizontalCount <= 0
    \/ g.verticalCount <= 0

IsDownloadDisabledFirstGroup ==
    \/ isLoading
    \/ Len(barcodeGroups) = 0
    \/ GroupBlocksExport(barcodeGroups[1])

IsDownloadDisabled ==
    \/ isLoading
    \/ Len(barcodeGroups) = 0
    \/ \E i \in 1..Len(barcodeGroups) : GroupBlocksExport(barcodeGroups[i])

\* The click on the export button: lines 246-249, up to the first await.
HandleGenerateAndDownload ==
    /\ ~IsDownloadDisabled
    /\ isLoading' = TRUE
    /\ download' = ""
    /\ LET valid == ValidGroups(barcodeGroups)
           prepared == CanvasPrepared(FALSE)
       IN IF valid = <<>>
          THEN /\ exportCanvas' = prepared
               /\ error' = NoError
               /\ lastPass' = Finished(BlankPass(FALSE), "success", NoError, prepared)
               /\ exportPc' = "toBlob"
               /\ exportOutcome' = "success"
               /\ UNCHANGED passes
          ELSE /\ exportCanvas' = CanvasForContent(prepared, FALSE)
               /\ error' = NoError
               /\ passes' = Append(passes,
                      NewPass(CanvasForContent(prepared, FALSE), valid, FALSE))
               /\ exportPc' = "drawing"
               /\ exportOutcome' = "none"
               /\ UNCHANGED lastPass
    /\ UNCHANGED <<now, validations, validatedFor, previewCanvas>>
    /\ UNCHANGED groupVars

\* The callback of offscreenCanvas.toBlob (lines 251-264).
BlobCallbackKeepLoading(hasBlob) ==
    /\ exportPc = "toBlob"
    /\ exportPc' = "idle"
    /\ IF hasBlob
       THEN download' = FileName /\ UNCHANGED error
       ELSE error' = BlobMsg /\ UNCHANGED download
    /\ UNCHANGED <<now, validations, validatedFor, passes, previewCanvas,
                   exportCanvas, exportOutcome, lastPass, isLoading>>
    /\ UNCHANGED groupVars

BlobCallback(hasBlob) ==
    /\ exportPc = "toBlob"
    /\ exportPc' = "idle"
    /\ isLoading' = FALSE
    /\ IF hasBlob
       THEN download' = FileName /\ UNCHANGED error
       ELSE error' = BlobMsg /\ UNCHANGED download
    /\ UNCHANGED <<now, validations, validatedFor, passes, previewCanvas,
                   exportCanvas, exportOutcome, lastPass>>
    /\ UNCHANGED groupVars


(***************************************************************************)
(* The application after mount: one group with inputValue '1', both        *)
(* effects have armed their timers.                                        *)
(***************************************************************************)
Init ==
    /\ now = 0
    /\ barcodeGroups = InitialGroups(0)
    /\ isLoading = FALSE
    /\ error = NoError
    /\ valTimers = <<InitialGroups(0)>>
    /\ drawTimers = <<InitialGroups(0)>>
    /\ validations = EmptyBag
    /\ validatedFor = [id \in 0..MaxClock |-> EmptyStr]
    /\ passes = <<>>
    /\ previewCanvas = NewCanvas
    /\ exportCanvas = NewCanvas
    /\ exportPc = "idle"
    /\ exportOutcome = "none"
    /\ download = ""
    /\ lastPass = NoPass

\* The identifiers the user types in Spec.
InputValues == {Key1, Key2}

\* Spec: the groups and their validation.  The preview and the export only
\* read barcodeGroups, so their steps are left to SpecR and SpecP.
Next ==
    \/ Tick
    \/ HandleAddGroup
    \/ \E id \in GroupIds(barcodeGroups) : HandleRemoveGroup(id)
    \/ \E id \in GroupIds(barcodeGroups), v \in InputValues :
          HandleGroupChange(id, "inputValue", Str(v))
    \/ ValTimerFire
    \/ \E c \in BagToSet(validations) : LookupRespond(c)
    \/ \E c \in BagToSet(validations) : HeadRespond(c)

Spec == Init /\ [][Next]_vars

\* What resolving an identifier yields: the identifier itself when it is a
\* full URL, else the URL the lookup table holds for it.
ResolutionOf(value) ==
    IF IsFullUrl(value) THEN value
    ELSE IF value \in DOMAIN BarcodesTable THEN BarcodesTable[value]
    ELSE EmptyStr

\* No other group of the sequence has the id of group i.
UniqueId(groups, i) == \A j \in 1..Len(groups) : groups[j].id = groups[i].id => j = i

(***************************************************************************)
(* SpecV: the resolution of one group's identifier.  The user types a      *)
(* number the table resolves, a number whose row has no image_url, and a   *)
(* full URL.                                                               *)
(***************************************************************************)
InputValuesV == {Key1, Key3, UrlSvg}

NextV ==
    \/ \E id \in GroupIds(barcodeGroups), v \in InputValuesV :
          HandleGroupChange(id, "inputValue", Str(v))
    \/ ValTimerFire
    \/ \E c \in BagToSet(validations) : LookupRespond(c)
    \/ \E c \in BagToSet(validations) : HeadRespond(c)

SpecV == Init /\ [][NextV]_vars

(***************************************************************************)
(* SpecH: handleGroupChange called with every key of BarcodeGroup, a       *)
(* string and a number, for the ids in use and one that is not, on one or  *)
(* two groups the first of which has been validated.  The validation and   *)
(* the preview only react to the groups, so their steps are left to the    *)
(* other specifications.                                                   *)
(***************************************************************************)
GroupKeys ==
    {"id", "inputValue", "resolvedUrl", "validationStatus", "title",
     "horizontalCount", "verticalCount", "marginTop"}

ValuesH == {Str(Key2), Num(3)}

NextH ==
    \/ HandleAddGroup
    \/ \E id \in GroupIds(barcodeGroups) : HandleRemoveGroup(id)
    \/ \E id \in 0..(MaxClock + 1), field \in GroupKeys, value \in ValuesH :
          HandleGroupChange(id, field, value)

(***************************************************************************)
(* SpecR: editing, the two debounce timers, the preview and the export.    *)
(* It starts from a state Spec reaches: the first group's identifier has   *)
(* been resolved, and the completion's setBarcodeGroups has just re-armed  *)
(* both timers.  The user adds and removes groups and edits the vertical   *)
(* count; no identifier is edited here, so the validation handler finds no *)
(* group to validate (identifiers are edited in Spec).                     *)
(***************************************************************************)
ValidGroup(id, value, title, h, v, marginTop) ==
    [NewGroup(id, value, marginTop) EXCEPT
        !.validationStatus = "valid", !.resolvedUrl = ResolutionOf(value),
        !.title = title, !.horizontalCount = h, !.verticalCount = v]

InvalidGroup(id, value, marginTop) ==
    [NewGroup(id, value, marginTop) EXCEPT !.validationStatus = "invalid"]

ResolvedGroups == <<ValidGroup(0, Key1, EmptyStr, 5, 10, 0)>>

InitFrom(groups) ==
    /\ now = 1
    /\ barcodeGroups = groups
    /\ isLoading = FALSE
    /\ error = NoError
    /\ valTimers = <<groups>>
    /\ drawTimers = <<groups>>
    /\ validations = EmptyBag
    /\ validatedFor = [id \in 0..MaxClock |-> EmptyStr]
    /\ passes = <<>>
    /\ previewCanvas = NewCanvas
    /\ exportCanvas = NewCanvas
    /\ exportPc = "idle"
    /\ exportOutcome = "none"
    /\ download = ""
    /\ lastPass = NoPass

InitR == InitFrom(ResolvedGroups)

SpecH == InitR /\ [][NextH]_vars

\* The natural sizes, in px, the images load with in SpecR.
ImageSizesR == {<<100, 50>>}

NextR ==
    \/ HandleAddGroup
    \/ \E id \in GroupIds(barcodeGroups) : HandleRemoveGroup(id)
    \/ \E id \in GroupIds(barcodeGroups), n \in {0, 10} :
          HandleGroupChange(id, "verticalCount", Num(n))
    \/ ValTimerFire
    \/ DrawTimerFire
    \/ \E k \in 1..Len(passes), size \in ImageSizesR : ImageLoaded(k, size)
    \/ \E k \in 1..Len(passes) : ImageFailed(k)
    \/ HandleGenerateAndDownload
    \/ \E hasBlob \in BOOLEAN : BlobCallback(hasBlob)

SpecR == InitR /\ [][NextR]_vars

(***************************************************************************)
(* SpecE: exports of one or two small groups, overlapping the preview      *)
(* pass or not, where every image load of the export eventually succeeds   *)
(* or fails and the encoder eventually calls back.  The groups are not     *)
(* edited (SpecR has exports with edits going on).                         *)
(***************************************************************************)
ExportGroup(id) ==
    {ValidGroup(id, Key1, EmptyStr, 2, 1, 0), ValidGroup(id, Key1, <<"T">>, 1, 2, 10)}

ExportGroupSeqs ==
    UNION {[1..n -> UNION {ExportGroup(id) : id \in 0..(MaxGroups - 1)}] : n \in 1..MaxGroups}

ExportInputs == {gs \in ExportGroupSeqs : \A i \in 1..Len(gs) : gs[i].id = i - 1}

InitE == \E groups \in ExportInputs : InitFrom(groups)

\* The natural sizes, in px, the images load with in SpecE.
ImageSizesE == {<<0, 0>>, <<100, 50>>, <<100, 3508>>}

\* The image the export's pass waits for loads or fails to load.
ExportImageSettles ==
    \E k \in 1..Len(passes) :
        /\ ~passes[k].isPreview
        /\ \/ \E size \in ImageSizesE : ImageLoaded(k, size)
           \/ ImageFailed(k)

NextE ==
    \/ DrawTimerFire
    \/ \E k \in 1..Len(passes), size \in ImageSizesE : ImageLoaded(k, size)
    \/ \E k \in 1..Len(passes) : ImageFailed(k)
    \/ HandleGenerateAndDownload
    \/ \E hasBlob \in BOOLEAN : BlobCallback(hasBlob)

SpecE ==
    /\ InitE
    /\ [][NextE]_vars
    /\ WF_vars(ExportImageSettles)
    /\ WF_vars(\E hasBlob \in BOOLEAN : BlobCallback(hasBlob))

(***************************************************************************)
(* SpecP: render passes over a range of group sequences and image sizes.   *)
(* Each initial state holds a sequence of groups as validation and edits   *)
(* leave them; the groups are not edited further, so the preview pass and  *)
(* the export work on that sequence.  The user exports once the preview    *)
(* has been drawn (SpecR has exports that overlap a preview pass).         *)
(***************************************************************************)
PassGroup(id) ==
    {ValidGroup(id, Key1, title, 2, v, 0) : title \in {EmptyStr, <<"T">>}, v \in {1, 2}}
    \cup {ValidGroup(id, Key2, EmptyStr, 2, 1, 0),
          ValidGroup(id, Key1, EmptyStr, 2, 1, 10),
          ValidGroup(id, Key1, <<" ">>, 2, 1, 0),
          ValidGroup(id, Key1, EmptyStr, 0, 1, 0),
          ValidGroup(id, Key1, EmptyStr, 2, 0, 10),
          InvalidGroup(id, Key1, 10)}

PassGroupSeqs ==
    UNION {[1..n -> UNION {PassGroup(id) : id \in 0..(MaxGroups - 1)}] : n \in 0..MaxGroups}

PassInputs == {gs \in PassGroupSeqs : \A i \in 1..Len(gs) : gs[i].id = i - 1}

InitP == \E groups \in PassInputs : InitFrom(groups)

\* The natural sizes, in px, the images load with in SpecP.
ImageSizesP ==
    {<<0, 0>>, <<1300, 50>>, <<100, 1754>>, <<100, 3507>>, <<100, 3508>>}

NextP ==
    \/ DrawTimerFire
    \/ \E k \in 1..Len(passes), size \in ImageSizesP : ImageLoaded(k, size)
    \/ \E k \in 1..Len(passes) : ImageFailed(k)
    \/ (drawTimers = <<>> /\ passes = <<>> /\ HandleGenerateAndDownload)
    \/ \E hasBlob \in BOOLEAN : BlobCallback(hasBlob)

SpecP == InitP /\ [][NextP]_vars

(***************************************************************************)
(* SpecG: render passes over 5 by 10 grids of a raster image, of a vector  *)
(* image found by the lookup and of a vector image given by a full URL     *)
(* with a query string, and a small titled group, with images of 100 by 50 *)
(* and 100 by 200 px.  As in SpecP the groups are not edited.              *)
(***************************************************************************)
GridGroup(id) ==
    {ValidGroup(id, Key1, EmptyStr, 5, 10, 0),
     ValidGroup(id, Key2, EmptyStr, 5, 10, 0),
     ValidGroup(id, UrlSvgQuery, EmptyStr, 5, 10, 0),
     ValidGroup(id, Key1, <<"T">>, 2, 1, 10)}

GridGroupSeqs ==
    UNION {[1..n -> UNION {GridGroup(id) : id \in 0..(MaxGroups - 1)}] : n \in 1..MaxGroups}

GridInputs == {gs \in GridGroupSeqs : \A i \in 1..Len(gs) : gs[i].id = i - 1}

InitG == \E groups \in GridInputs : InitFrom(groups)

\* The natural sizes, in px, the images load with in SpecG.
ImageSizesG == {<<100, 50>>, <<100, 200>>}

NextG ==
    \/ DrawTimerFire
    \/ \E k \in 1..Len(passes), size \in ImageSizesG : ImageLoaded(k, size)
    \/ \E k \in 1..Len(passes) : ImageFailed(k)
    \/ (drawTimers = <<>> /\ passes = <<>> /\ HandleGenerateAndDownload)
    \/ \E hasBlob \in BOOLEAN : BlobCallback(hasBlob)

SpecG == InitG /\ [][NextG]_vars

(***************************************************************************)
(* Claims.                                                                 *)
(***************************************************************************)
\* C1: in every reachable state a group that is 'valid' holds the URL that
\* resolving its current inputValue yields, never the result of a resolution
\* started for an identifier it had before (stated for the groups whose id
\* no other group shares).
C1_ValidIsCurrent ==
    \A i \in 1..Len(barcodeGroups) :
        (UniqueId(barcodeGroups, i) /\ barcodeGroups[i].validationStatus = "valid")
            => barcodeGroups[i].resolvedUrl = ResolutionOf(barcodeGroups[i].inputValue)

\* Nothing is pending that could still start or finish a resolution.
Quiescent == valTimers = <<>> /\ validations = EmptyBag

\* C9: once the validation timer has fired and every resolution has
\* completed, each group with a non-empty identifier is 'valid' or 'invalid'
\* as the outcome of a resolution of exactly that identifier (stated for the
\* groups whose id no other group shares).
C9_EditIsValidated ==
    Quiescent =>
        \A i \in 1..Len(barcodeGroups) :
            (UniqueId(barcodeGroups, i) /\ barcodeGroups[i].inputValue # EmptyStr)
                => /\ barcodeGroups[i].validationStatus \in {"valid", "invalid"}
                   /\ validatedFor[barcodeGroups[i].id] = barcodeGroups[i].inputValue

\* The fields a completion does not write.
OtherFields(g) ==
    <<g.id, g.inputValue, g.title, g.horizontalCount, g.verticalCount, g.marginTop>>

\* C10: a step in which a resolution completes changes at most one group of
\* the sequence, only its validationStatus and resolvedUrl, and only a group
\* with the id the resolution was started for; the number and order of the
\* groups stay, and nothing changes when no group has that id.
C10_CompletionFrame ==
    [][BagCardinality(validations') < BagCardinality(validations)
        => /\ Len(barcodeGroups') = Len(barcodeGroups)
           /\ \A i \in 1..Len(barcodeGroups) :
                 /\ OtherFields(barcodeGroups'[i]) = OtherFields(barcodeGroups[i])
                 /\ barcodeGroups'[i] # barcodeGroups[i]
                      => \E c \in BagToSet(validations) :
                            /\ CopiesIn(c, validations') < CopiesIn(c, validations)
                            /\ c.id = barcodeGroups[i].id
           /\ \A i, j \in 1..Len(barcodeGroups) :
                 (barcodeGroups'[i] # barcodeGroups[i]
                    /\ barcodeGroups'[j] # barcodeGroups[j]) => i = j
      ]_vars


\* C2: the export starts only when no export is in flight, there is at least
\* one group, and every group is 'valid' with a non-empty resolvedUrl and
\* positive counts.
C2_ExportGuard ==
    [][(exportPc = "idle" /\ exportPc' # "idle")
        => /\ ~isLoading
           /\ Len(barcodeGroups) > 0
           /\ \A i \in 1..Len(barcodeGroups) :
                 /\ barcodeGroups[i].validationStatus = "valid"
                 /\ barcodeGroups[i].resolvedUrl # EmptyStr
                 /\ barcodeGroups[i].horizontalCount > 0
                 /\ barcodeGroups[i].verticalCount > 0
      ]_vars

\* An export is in flight, started while every group passed the guard.
C2_Witness == exportPc = "drawing" /\ isLoading

\* The vertical cursor of a pass after the margin and title band of its
\* k-th group, and that group's grid height, recomputed from the groups and
\* the natural sizes the images loaded with.
GridHeightOf(pass, k) ==
    pass.groups[k].verticalCount * CellSize(pass.groups[k].resolvedUrl, pass.dims[k][2])

BandOf(g) == IF HasTitle(g) THEN (3 * FontSizePx) \div 2 ELSE 0

RECURSIVE CursorAt(_, _)
CursorAt(pass, k) ==
    (IF k = 1 THEN 0 ELSE CursorAt(pass, k - 1) + GridHeightOf(pass, k - 1))
    + MarginPx(pass.groups[k].marginTop) + BandOf(pass.groups[k])

GroupOverflows(pass, k) == CursorAt(pass, k) + GridHeightOf(pass, k) > A4_HEIGHT_PX

CellCount(drawn) == Len(SelectSeq(drawn, LAMBDA op : op.kind = "cell"))

RECURSIVE CellsBefore(_, _)
CellsBefore(pass, k) ==
    IF k = 1 THEN 0
    ELSE CellsBefore(pass, k - 1)
         + pass.groups[k - 1].horizontalCount * pass.groups[k - 1].verticalCount

\* C3: a pass in which some group's grid would pass the page's bottom edge
\* ends in the error state with the overflow message, its last drawing call
\* the tint and no cell of that group drawn; a pass still running or ended
\* in success has had no such group.
C3_OverflowFails ==
    /\ \A j \in 1..Len(passes) : \A k \in 1..Len(passes[j].dims) :
          ~GroupOverflows(passes[j], k)
    /\ LET pass == lastPass.pass IN
       \A k \in 1..Len(pass.dims) :
          GroupOverflows(pass, k)
            => /\ lastPass.outcome = "error"
               /\ k = Len(pass.dims)
               /\ lastPass.err = OverflowMsg
               /\ pass.drawn[Len(pass.drawn)].kind = "tint"
               /\ CellCount(pass.drawn) = CellsBefore(pass, k)

\* The cell of the pass's k-th group has no width or no height.
ZeroCell(pass, k) ==
    \/ CellSize(pass.groups[k].resolvedUrl, pass.dims[k][1]) = 0
    \/ CellSize(pass.groups[k].resolvedUrl, pass.dims[k][2]) = 0

\* C3, amended: as C3, but when the image of the group that passes the
\* bottom edge loaded with a zero width or height (the cursor alone is below
\* the edge), the message is the zero-dimension message of that image.
C3_OverflowFailsNonZero ==
    /\ \A j \in 1..Len(passes) : \A k \in 1..Len(passes[j].dims) :
          ~GroupOverflows(passes[j], k)
    /\ LET pass == lastPass.pass IN
       \A k \in 1..Len(pass.dims) :
          GroupOverflows(pass, k)
            => /\ lastPass.outcome = "error"
               /\ k = Len(pass.dims)
               /\ lastPass.err = IF ZeroCell(pass, k)
                                 THEN ZeroMsg(pass.groups[k].resolvedUrl)
                                 ELSE OverflowMsg
               /\ pass.drawn[Len(pass.drawn)].kind = "tint"
               /\ CellCount(pass.drawn) = CellsBefore(pass, k)

\* A pass failed at its second group, whose grid ends one px below the page.
C3_Witness ==
    /\ lastPass.outcome = "error"
    /\ lastPass.err = OverflowMsg
    /\ Len(lastPass.pass.dims) = 2
    /\ CursorAt(lastPass.pass, 2) + GridHeightOf(lastPass.pass, 2) = A4_HEIGHT_PX + PX
    /\ CellCount(lastPass.pass.drawn) > 0

\* C4: the export clicks a download only when its layout pass ended in
\* success.
C4_DownloadOnlyAfterSuccess ==
    download = FileName => exportOutcome = "success"

\* C5: a failed pass ends with the tint painted over the rectangle, and
\* under the transform, of its white background fill.
C5_TintCoversCanvas ==
    lastPass.outcome = "error" =>
        LET drawn == lastPass.pass.drawn
            tint == drawn[Len(drawn)]
            white == drawn[1]
        IN /\ tint.kind = "tint"
           /\ white.kind = "white"
           /\ <<tint.x, tint.y, tint.w, tint.h>> = <<white.x, white.y, white.w, white.h>>
           /\ tint.ctm = white.ctm

\* The messages drawOnCanvas reports.
IsLayoutError(e) == e.msg \in {OverflowMsg.msg, LoadMsg(EmptyStr).msg, ZeroMsg(EmptyStr).msg}

\* C6: when the pass that completed most recently ended in success, no
\* layout error message is shown.
C6_SuccessClearsError ==
    lastPass.outcome = "success" => ~IsLayoutError(error)

\* C7: at most one preview pass is in progress.
C7_OnePreviewPass == PreviewCount <= 1

\* C8: at most one validation timer and at most one preview timer are
\* pending.
C8_OneTimerEach == Len(valTimers) <= 1 /\ Len(drawTimers) <= 1

\* Both timers are pending for a sequence reached by at least two changes
\* (a group added, a count edited).
C8_Witness ==
    /\ valTimers = <<barcodeGroups>>
    /\ drawTimers = <<barcodeGroups>>
    /\ Len(barcodeGroups) = 2
    /\ \E i \in 1..2 : barcodeGroups[i].verticalCount = 0

\* The groups of a sequence that remain when every group that is not 'valid',
\* has an empty resolvedUrl or has a count <= 0 is deleted.
Kept(groups) ==
    SelectSeq(groups, LAMBDA g :
        ~(\/ g.validationStatus # "valid"
          \/ g.resolvedUrl = EmptyStr
          \/ g.horizontalCount <= 0
          \/ g.verticalCount <= 0))

TitleCount(drawn) == Len(SelectSeq(drawn, LAMBDA op : op.kind = "title"))

C12_UniqueIds ==
    \A i, j \in 1..Len(barcodeGroups) :
        barcodeGroups[i].id = barcodeGroups[j].id => i = j

\* The cell and title drawing calls of a pass in page coordinates: their
\* arguments, without the transform in force.
PagePlacements(pass) ==
    LET ops == SelectSeq(pass.drawn, LAMBDA op : op.kind \in {"cell", "title"})
    IN [i \in 1..Len(ops) |-> <<ops[i].kind, ops[i].x, ops[i].y, ops[i].w, ops[i].h>>]

\* The transforms under which a pass drew its cells and titles.
ContentScales(pass) ==
    {pass.drawn[i].ctm : i \in {j \in 1..Len(pass.drawn) :
                                   pass.drawn[j].kind \in {"cell", "title"}}}

\* The white background fill of a finished pass covers its canvas.
WhiteCoversCanvas(fin) ==
    LET white == fin.pass.drawn[1] IN
    /\ white.kind = "white"
    /\ white.x = 0 /\ white.y = 0
    /\ white.w * white.ctm[1] = fin.canvasWidth * PX * white.ctm[2]
    /\ white.h * white.ctm[1] = fin.canvasHeight * PX * white.ctm[2]

CellsOf(pass) == SelectSeq(pass.drawn, LAMBDA op : op.kind = "cell")

\* The cell size the pass used for its k-th group.
CellWidthOf(pass, k) == CellSize(pass.groups[k].resolvedUrl, pass.dims[k][1])
CellHeightOf(pass, k) == CellSize(pass.groups[k].resolvedUrl, pass.dims[k][2])

\* C14: in a successful pass the cells of the k-th group are its
\* horizontalCount * verticalCount drawing calls in row-major order, the one
\* of (row, col) of size cellWidth by cellHeight at
\* (startX + col * cellWidth, startY + row * cellHeight), with
\* 2 * startX = pageWidthPx - horizontalCount * cellWidth and startY the
\* cursor after the group's margin and title band; the cursor ends
\* verticalCount * cellHeight below the last group's startY.  A single
\* 5 by 10 group of 100 by 50 px cells, no margin, no title, occupies
\* 500 by 500 px from ((pageWidthPx - 500) / 2, 0).
C14_CellPlacement ==
    lastPass.outcome = "success" =>
        LET pass == lastPass.pass
            n == Len(pass.groups)
            cells == CellsOf(pass)
        IN /\ Len(cells) = CellsBefore(pass, n + 1)
           /\ \A k \in 1..n :
                 LET g == pass.groups[k]
                     cw == CellWidthOf(pass, k)
                     ch == CellHeightOf(pass, k)
                 IN \A row \in 0..(g.verticalCount - 1), col \in 0..(g.horizontalCount - 1) :
                       LET c == cells[CellsBefore(pass, k) + row * g.horizontalCount + col + 1]
                       IN /\ c.w = cw
                          /\ c.h = ch
                          /\ 2 * (c.x - col * cw) = A4_WIDTH_PX - g.horizontalCount * cw
                          /\ c.y = CursorAt(pass, k) + row * ch
           /\ n > 0 => pass.y = CursorAt(pass, n) + GridHeightOf(pass, n)
           /\ (/\ n = 1
               /\ pass.groups[1].horizontalCount = 5
               /\ pass.groups[1].verticalCount = 10
               /\ pass.groups[1].marginTop = 0
               /\ pass.groups[1].title = EmptyStr
               /\ CellWidthOf(pass, 1) = 100 * PX
               /\ CellHeightOf(pass, 1) = 50 * PX)
                => /\ Len(cells) = 50
                   /\ 2 * cells[1].x = A4_WIDTH_PX - 500 * PX
                   /\ cells[1].y = 0
                   /\ cells[50].x + cells[50].w = cells[1].x + 500 * PX
                   /\ cells[50].y + cells[50].h = 500 * PX
                   /\ pass.y = 500 * PX

\* A successful pass over the single 5 by 10 group of 100 by 50 px cells.
C14_Witness ==
    /\ lastPass.outcome = "success"
    /\ Len(lastPass.pass.groups) = 1
    /\ lastPass.pass.groups[1].horizontalCount = 5
    /\ lastPass.pass.groups[1].verticalCount = 10
    /\ lastPass.pass.groups[1].marginTop = 0
    /\ CellWidthOf(lastPass.pass, 1) = 100 * PX
    /\ CellHeightOf(lastPass.pass, 1) = 50 * PX
    /\ Len(CellsOf(lastPass.pass)) = 50

\* The cursor after the margin and title band of the k-th group when every
\* non-empty title takes a band of 1.5 * H, H the font height.
RECURSIVE TitledCursorAt(_, _)
TitledCursorAt(pass, k) ==
    (IF k = 1 THEN 0 ELSE TitledCursorAt(pass, k - 1) + GridHeightOf(pass, k - 1))
    + MarginPx(pass.groups[k].marginTop)
    + (IF pass.groups[k].title # EmptyStr THEN (3 * FontSizePx) \div 2 ELSE 0)

\* C15: while a pass waits for the image of its i-th group, every group up
\* to the i-th with a non-empty title (whitespace included) has had its title
\* drawn and has advanced the cursor by 1.5 * H, and every group with an empty
\* title by 0.
C15_TitleAdvance ==
    \A j \in 1..Len(passes) :
        LET pass == passes[j] IN
        /\ pass.y = TitledCursorAt(pass, pass.i)
        /\ TitleCount(pass.drawn)
             = Cardinality({k \in 1..pass.i : pass.groups[k].title # EmptyStr})

\* The groups of a pass whose cells have been drawn, and the y of the first
\* cell of such a group.
DrawnGroups(pass) ==
    {k \in 1..Len(pass.groups) : CellsBefore(pass, k + 1) <= Len(CellsOf(pass))}

StartYOf(pass, k) == CellsOf(pass)[CellsBefore(pass, k) + 1].y

\* The cells of the k-th group.
GroupCells(pass, k) ==
    {CellsOf(pass)[c] : c \in (CellsBefore(pass, k) + 1)..CellsBefore(pass, k + 1)}

\* C16: in every pass, running or ended, the cells of each drawn group lie
\* between its startY and startY plus its grid height, each group's startY
\* is at least the previous group's startY plus that group's grid height (so
\* grids do not overlap vertically; the margin is added to the cursor, not
\* measured from the page top), and the cursor is never above the bottom of
\* a drawn grid.
C16_CursorMonotone ==
    \A pass \in {passes[j] : j \in 1..Len(passes)} \cup {lastPass.pass} :
        \A k \in DrawnGroups(pass) :
            /\ StartYOf(pass, k) >= 0
            /\ \A c \in GroupCells(pass, k) :
                  /\ c.y >= StartYOf(pass, k)
                  /\ c.y + c.h <= StartYOf(pass, k) + GridHeightOf(pass, k)
            /\ k > 1 =>
                  /\ StartYOf(pass, k) >= StartYOf(pass, k - 1) + GridHeightOf(pass, k - 1)
                  /\ StartYOf(pass, k) - (StartYOf(pass, k - 1) + GridHeightOf(pass, k - 1))
                       >= MarginPx(pass.groups[k].marginTop)
            /\ pass.y >= StartYOf(pass, k) + GridHeightOf(pass, k)

\* A successful pass over two groups, the second with a margin: its grid
\* starts below the first group's grid by that margin.
C16_Witness ==
    /\ lastPass.outcome = "success"
    /\ DrawnGroups(lastPass.pass) = {1, 2}
    /\ lastPass.pass.groups[2].marginTop > 0
    /\ StartYOf(lastPass.pass, 2)
         = StartYOf(lastPass.pass, 1) + GridHeightOf(lastPass.pass, 1)
           + MarginPx(lastPass.pass.groups[2].marginTop)
    /\ StartYOf(lastPass.pass, 2) > MarginPx(lastPass.pass.groups[2].marginTop)

\* The token starts with http:// or https://.
HasUrlScheme(value) ==
    \/ (Len(value) >= 7 /\ SubSeq(value, 1, 7) = <<"h", "t", "t", "p", ":", "/", "/">>)
    \/ (Len(value) >= 8 /\ SubSeq(value, 1, 8) = <<"h", "t", "t", "p", "s", ":", "/", "/">>)

\* Every group with the id has the status and resolvedUrl after the step.
Written(id, status, url) ==
    \A i \in 1..Len(barcodeGroups) :
        barcodeGroups[i].id = id
            => /\ barcodeGroups'[i].validationStatus = status
               /\ barcodeGroups'[i].resolvedUrl = url

\* C17: a call started for a token with a URL scheme never waits for the
\* lookup and checks the token itself.  When the HEAD request of a call
\* settles, the group becomes 'valid' with the checked URL if it answered
\* with success (and the URL is then the token itself or the string imageUrl
\* of a 2xx lookup answer), and 'invalid' with an empty resolvedUrl if it did
\* not or threw.  When the lookup of a call settles, the group becomes
\* 'invalid' with an empty resolvedUrl if the fetch threw, the answer was not
\* 2xx or it held no string imageUrl; otherwise no group is written and the
\* call goes on to the HEAD request of that imageUrl.
C17_ResolutionOutcome ==
    [][/\ \A c \in BagToSet(validations) :
             HasUrlScheme(c.value) => (c.pc = "head" /\ c.urlToCheck = c.value)
       /\ \A c \in BagToSet(validations), outcome \in {"ok", "notok", "throw"} :
             (c.pc = "head" /\ HeadSettles(c, outcome))
                => IF outcome = "ok"
                   THEN /\ Written(c.id, "valid", c.urlToCheck)
                        /\ c.urlToCheck # EmptyStr
                        /\ ~HasUrlScheme(c.value)
                              => /\ Handler(c.value, TRUE).status \in 200..299
                                 /\ Handler(c.value, TRUE).hasImageUrl
                                 /\ c.urlToCheck = Handler(c.value, TRUE).imageUrl
                   ELSE Written(c.id, "invalid", EmptyStr)
       /\ \A c \in BagToSet(validations), netOk \in BOOLEAN, dbOk \in BOOLEAN :
             (c.pc = "lookup" /\ LookupSettles(c, netOk, dbOk))
                => LET r == Handler(c.value, dbOk) IN
                   IF netOk /\ r.status \in 200..299 /\ r.hasImageUrl
                   THEN /\ barcodeGroups' = barcodeGroups
                        /\ [c EXCEPT !.pc = "head", !.urlToCheck = r.imageUrl]
                               \in BagToSet(validations')
                   ELSE Written(c.id, "invalid", EmptyStr)
      ]_vars

\* The group holds a full URL that its HEAD request confirmed.
C17_Witness ==
    /\ barcodeGroups[1].inputValue = UrlSvg
    /\ barcodeGroups[1].validationStatus = "valid"
    /\ barcodeGroups[1].resolvedUrl = UrlSvg
    /\ validatedFor[barcodeGroups[1].id] = UrlSvg

\* The file extension of a URL: from the last dot of the last path segment,
\* the query string and the fragment left aside.
QueryStart(url) ==
    LET marks == {i \in 1..Len(url) : url[i] \in {"?", "#"}}
    IN IF marks = {} THEN Len(url) + 1
       ELSE CHOOSE i \in marks : \A j \in marks : i <= j

UrlPath(url) == SubSeq(url, 1, QueryStart(url) - 1)

FileExtension(url) ==
    LET path == UrlPath(url)
        dots == {i \in 1..Len(path) :
                    path[i] = "." /\ \A j \in i..Len(path) : path[j] # "/"}
    IN IF dots = {} THEN <<>>
       ELSE SubSeq(path, CHOOSE i \in dots : \A j \in dots : j <= i, Len(path))

HasSvgExtension(url) == ToLowerCase(FileExtension(url)) = <<".", "s", "v", "g">>

\* The natural length n (px) of an image of the URL as the layout should
\* use it, times 96: scaled by 300/96 for a vector asset.
ScaledBy96(url, n) == IF HasSvgExtension(url) THEN n * PX * 300 ELSE n * PX * 96

\* C18: the cells of every drawn group have the natural size of its image,
\* multiplied by 300/96 = 3.125 exactly when the file extension of its
\* resolved URL is .svg; a pass fails with the overflow message only when
\* the grid of that size passes the page bottom, and a drawn grid of that
\* size does not.
C18_VectorScale ==
    \A pass \in {passes[j] : j \in 1..Len(passes)} \cup {lastPass.pass} :
        /\ \A k \in DrawnGroups(pass) :
              LET url == pass.groups[k].resolvedUrl IN
              /\ \A c \in GroupCells(pass, k) :
                    /\ 96 * c.w = ScaledBy96(url, pass.dims[k][1])
                    /\ 96 * c.h = ScaledBy96(url, pass.dims[k][2])
              /\ 96 * StartYOf(pass, k)
                   + pass.groups[k].verticalCount * ScaledBy96(url, pass.dims[k][2])
                     <= 96 * A4_HEIGHT_PX
        /\ (pass = lastPass.pass /\ lastPass.err = OverflowMsg) =>
              LET k == Len(pass.dims) IN
              96 * pass.y
                + pass.groups[k].verticalCount
                    * ScaledBy96(pass.groups[k].resolvedUrl, pass.dims[k][2])
                  > 96 * A4_HEIGHT_PX

C20_CellsInsidePage ==
    lastPass.outcome = "success" =>
        \A i \in 1..Len(lastPass.pass.drawn) :
            LET c == lastPass.pass.drawn[i] IN
            c.kind = "cell"
                => /\ c.x >= 0
                   /\ c.x + c.w <= A4_WIDTH_PX
                   /\ c.y >= 0
                   /\ c.y + c.h <= A4_HEIGHT_PX

\* What a call handleGroupChange(id, field, value) is to do to the groups.
ChangeFrame(id, field, value) ==
    /\ Len(barcodeGroups') = Len(barcodeGroups)
    /\ \A i \in 1..Len(barcodeGroups) :
          LET g == barcodeGroups[i] IN
          barcodeGroups'[i] =
            IF g.id # id THEN g
            ELSE IF field = "inputValue" /\ value.type = "string"
            THEN [g EXCEPT !.inputValue = value.val, !.validationStatus = "idle",
                           !.resolvedUrl = EmptyStr]
            ELSE IF field = "title" /\ value.type = "string"
            THEN [g EXCEPT !.title = value.val]
            ELSE IF field \in {"horizontalCount", "verticalCount", "marginTop"}
                    /\ value.type = "number"
            THEN [g EXCEPT ![field] = value.val]
            ELSE g

\* C21: handleGroupChange(id, field, value) with field 'inputValue' sets the
\* inputValue of the group with that id and resets its validationStatus to
\* 'idle' and its resolvedUrl to empty; with 'title', 'horizontalCount',
\* 'verticalCount' or 'marginTop' it changes that field only; the groups
\* with another id, the order and the number of groups stay; and a call
\* whose value type does not match the field, or whose id no group has,
\* changes no group.
C21_ChangeFrame ==
    [][\A id \in 0..(MaxClock + 1), field \in GroupKeys, value \in ValuesH :
          HandleGroupChange(id, field, value) => ChangeFrame(id, field, value)]_vars

\* C22: every started export finishes: whenever isLoading is true it is
\* eventually false again, whether the layout pass succeeds or fails and
\* whether or not the encoder returns data.
C22_ExportFinishes == isLoading ~> ~isLoading

\* An export has finished whose layout pass failed and whose encoder
\* returned no data; the export action is enabled again.
C22_Witness ==
    /\ exportPc = "idle"
    /\ ~isLoading
    /\ exportOutcome = "error"
    /\ error = BlobMsg

=============================================================================
